---- MODULE Spec2Model ----
(***************************************************************************)
(* Benchmark execution engine of LocalAI_Bench.                            *)
(*                                                                         *)
(* The repository carries the engine twice:                                *)
(*   impl = "mono" : app/services.py, reached through app/routes.py, which *)
(*                   builds a new BenchmarkService for every request;      *)
(*   impl = "pkg"  : app/services/benchmark_service/service.py, reached    *)
(*                   through its routes.py, which holds one module-level   *)
(*                   BenchmarkService.                                     *)
(* In the package's _execute_task the names ModelAdapterFactory and        *)
(* template are read as in app/services.py (the adapter factory of         *)
(* app/adapters/base.py and the template of the task).                     *)
(*                                                                         *)
(* Request handlers contain no suspension point and are one action each.   *)
(* execute_benchmark runs as an asyncio task: asyncio.create_task only     *)
(* schedules its first step, and afterwards it gives up control exactly at *)
(* the awaited adapter calls (initialize, generate, get_token_count,       *)
(* cleanup).  One action is one run of the coroutine from a resumption to  *)
(* the next suspension.                                                    *)
(***************************************************************************)
EXTENDS Integers, Sequences, FiniteSets, TLC

NumModels == 1
NumTasks == 2

Models == 1..NumModels
Tasks == 1..NumTasks

\* the asyncio tasks start_benchmark creates for the run: a first one and
\* one more, created when the run is started again before the first task's
\* first step has run
ExecIds == {1, 2}

VARIABLES impl, models, category, run, store, active_runs, execs, last, task_result, adapters

vars == <<impl, models, category, run, store, active_runs, execs, last, task_result, adapters>>

----------------------------------------------------------------------------
(* Data *)

NoCategory == "none"

\* category_id of a task (TaskModel.category_id): odd tasks belong to "c1"
TaskCategory(t) == IF t % 2 = 1 THEN "c1" ELSE NoCategory

Prefix(k) == [i \in 1..k |-> i]

\* the file of category "c1" (CategoryModel): it lists every task
NewCategory == [exists |-> TRUE, task_ids |-> Prefix(NumTasks)]

EmptyScores == [m \in {} |-> {}]

\* BenchmarkRunModel / BenchmarkRun as persisted by BenchmarkRunRepository
NoRun ==
  [exists |-> "none", model_ids |-> <<>>, task_ids |-> <<>>, category_ids |-> <<>>,
   status |-> "draft", error |-> "none", start_time |-> FALSE, end_time |-> FALSE,
   task_results |-> <<>>, aggregate_scores |-> EmptyScores]

NewRun(model_ids, category_ids, task_ids) ==
  [NoRun EXCEPT !.exists = "yes", !.model_ids = model_ids, !.task_ids = task_ids,
                !.category_ids = category_ids, !.status = "ready"]

\* TaskResultModel / TaskResult
NewResult(m, t, missing) ==
  [model |-> m, task |-> t, error |-> FALSE, score |-> "none",
   missing |-> missing, timed |-> FALSE, calls |-> {}]

\* the asyncio.Task of one execute_benchmark call
NoExec ==
  [pc |-> "none", br |-> NoRun, models |-> <<>>, tasks |-> <<>>, mi |-> 1, ti |-> 1,
   n |-> 0, failed |-> FALSE, cats |-> {}, scored |-> FALSE, cancelReq |-> FALSE,
   pend |-> "none", cur |-> NewResult(0, 0, FALSE), rets |-> {}]

\* asyncio.Task.done()
Done(e) == e.pc \in {"done", "raised", "cancelled"}

\* BaseRepository.update: writes only when the entity file exists
Update(r, br) == IF r.exists = "yes" THEN br ELSE r

\* floats are kept exact, as fractions <<numerator, denominator>> in lowest
\* terms with a positive denominator
RECURSIVE Gcd(_, _)
Gcd(a, b) == IF b = 0 THEN a ELSE Gcd(b, a % b)

Rat(n, d) == LET g == Gcd(n, d) IN <<n \div g, d \div g>>

RatAdd(p, q) == Rat(p[1] * q[2] + q[1] * p[2], p[2] * q[2])

RatMul(p, q) == Rat(p[1] * q[1], p[2] * q[2])

\* p / q for q # 0; a zero divisor raises ZeroDivisionError in the caller
RatDiv(p, q) == Rat(p[1] * q[2], p[2] * q[1])

RatLeq(p, q) == p[1] * q[2] <= q[1] * p[2]

RatMax(p, q) == IF RatLeq(p, q) THEN q ELSE p

RatMin(p, q) == IF RatLeq(p, q) THEN p ELSE q

Zero == Rat(0, 1)

Half == Rat(1, 2)

One == Rat(1, 1)

Components == <<"time", "quality", "complexity", "cost", "memory">>

\* ScoreComponentModel / ScoreComponent, and a score field left at None
Absent == [present |-> FALSE, normalized_score |-> Zero, weight |-> Zero]

ScoreComponent(normalized_score, weight) ==
  [present |-> TRUE, normalized_score |-> normalized_score, weight |-> weight]

NoUltimate == [present |-> FALSE, value |-> Zero]

\* TaskModel.evaluation_weights of a task without weights of its own (None)
NoWeights == [c \in {} |-> One]

\* the TaskResult handed to _evaluate_task_result together with what the
\* evaluation reads: execution_time_seconds = ticks^2 / 4, token_count =
\* 500 * ticks^2, the weights of the task's category (1.0 without one), the
\* task's own evaluation_weights, the template's evaluation_criteria (none,
\* plain dicts or criteria objects) and
\* the template's schemas (fields optional fields of one kind each)
NoTaskResult ==
  [evaluated |-> FALSE, time_ticks |-> 0, token_ticks |-> 0,
   weights |-> [c \in {Components[i] : i \in DOMAIN Components} |-> One],
   evaluation_weights |-> NoWeights,
   criteria |-> "none", fields |-> 0, kind |-> "text", coding |-> FALSE,
   score |-> [c \in {Components[i] : i \in DOMAIN Components} |-> Absent],
   ultimate_score |-> NoUltimate, error |-> FALSE]

\* HuggingFaceAdapter and OllamaAdapter after __init__; an attribute of the
\* HuggingFaceAdapter is None, loaded, or deleted by "del self.model";
\* last is the call made by the step before and how it ended
NewAdapters(device) ==
  [hf     |-> [device |-> device, model |-> "None", tokenizer |-> "None",
               cuda_error |-> FALSE],
   ollama |-> [client |-> "None", is_initialized |-> FALSE],
   last   |-> [adapter |-> "-", op |-> "-", outcome |-> "-"]]

\* what the step before this state answered: the response of a request, or
\* the TaskResults _execute_task returned during a step of the engine
Resp(op, ret) == [op |-> op, ret |-> ret, results |-> {}]

Init ==
  /\ impl \in {"mono", "pkg"}
  /\ models \in {Models, Models \ {NumModels}}
  /\ category \in {NewCategory, [NewCategory EXCEPT !.exists = FALSE]}
  /\ run = NoRun
  /\ store = {}
  /\ active_runs = 0
  /\ execs = [x \in ExecIds |-> NoExec]
  /\ last = Resp("-", "-")
  /\ task_result = NoTaskResult
  /\ adapters = NewAdapters("cpu")

----------------------------------------------------------------------------
(* The CRUD layer, an external collaborator *)

\* The model files are read by create_benchmark_run and by the first step of
\* execute_benchmark.  The category file is read by create_benchmark_run
\* and, for a run without task_ids, by the first step of execute_benchmark
\* and whenever the package's engine resolves the tasks of the next model.
\* What was deleted before the run is created is part of the initial state;
\* a deletion after the last read changes nothing the engine does, so the
\* CRUD layer deletes between the creation of the run and the last read.
ModelReadPending ==
  \/ \E x \in ExecIds : execs[x].pc = "pending"
  \/ run.exists = "yes" /\ run.status \in {"draft", "ready"}

CategoryReadPending ==
  \/ /\ run.exists = "yes"
     /\ run.task_ids = <<>>
     /\ \/ \E x \in ExecIds : execs[x].pc = "pending"
        \/ run.status \in {"draft", "ready"}
        \/ /\ impl = "pkg"
           /\ \E x \in ExecIds : /\ execs[x].pc \in {"initialize", "generate", "token", "cleanup"}
                                  /\ execs[x].mi < Len(execs[x].models)

DeleteModel(m) ==
  /\ ModelReadPending
  /\ m \in models
  /\ m = NumModels
  /\ models' = models \ {m}
  /\ last' = Resp("-", "-")
  /\ UNCHANGED <<adapters, task_result, impl, category, run, store, active_runs, execs>>

\* CategoryService.remove_task_from_category, for the last task of the list
RemoveTaskFromCategory ==
  /\ CategoryReadPending
  /\ category.exists
  /\ category.task_ids # <<>>
  /\ category' = [category EXCEPT !.task_ids = SubSeq(@, 1, Len(@) - 1)]
  /\ last' = Resp("-", "-")
  /\ UNCHANGED <<adapters, task_result, impl, models, run, store, active_runs, execs>>

\* CategoryService.delete_category: refused while the category lists a task
DeleteCategory ==
  /\ CategoryReadPending
  /\ category.exists
  /\ category.task_ids = <<>>
  /\ category' = [category EXCEPT !.exists = FALSE]
  /\ last' = Resp("-", "-")
  /\ UNCHANGED <<adapters, task_result, impl, models, run, store, active_runs, execs>>

CreateOutcomeNoCategoryCheck(model_ids, category_ids, task_ids) ==
  IF category_ids = <<>> /\ task_ids = <<>> THEN "ValidationError"
  ELSE IF \E i \in DOMAIN model_ids : model_ids[i] \notin models THEN "ValidationError"
  ELSE "ok"

CreateOutcome(model_ids, category_ids, task_ids) ==
  IF category_ids = <<>> /\ task_ids = <<>> THEN "ValidationError"
  ELSE IF \E i \in DOMAIN model_ids : model_ids[i] \notin models THEN "ValidationError"
  ELSE IF category_ids # <<>> /\ ~category.exists THEN "ValidationError"
  ELSE "ok"

CreateBenchmarkRun(model_ids, category_ids, task_ids) ==
  /\ run.exists = "none"
  /\ LET out == CreateOutcome(model_ids, category_ids, task_ids) IN
       /\ run' = IF out = "ok" THEN NewRun(model_ids, category_ids, task_ids) ELSE run
       /\ last' = Resp("create", out)
  /\ UNCHANGED <<adapters, task_result, impl, models, category, store, active_runs, execs>>

----------------------------------------------------------------------------
(* BenchmarkEngine: one coroutine run from a resumption to the next         *)
(* suspension yields a set of outcomes: the task's new local state, the    *)
(* persisted run and the task-result store.                                *)

\* a finished task keeps its outcome and what it produced; its other locals
\* are garbage
Finished(e) ==
  [NoExec EXCEPT !.pc = e.pc, !.n = e.n, !.failed = e.failed, !.br.status = e.br.status,
                 !.br.error = e.br.error]

Out(e, r, s) ==
  [e |-> IF Done(e) THEN Finished(e) ELSE [e EXCEPT !.rets = {}],
   run |-> r, store |-> s, rets |-> e.rets]

Put(f, k, v) == [y \in DOMAIN f \cup {k} |-> IF y = k THEN v ELSE f[y]]

ResultId(x, e) == <<x, e.n + 1>>

\* the adapter call made when the coroutine suspends at pc
Suspend(e, pc) == [e EXCEPT !.pc = pc, !.cur.calls = @ \cup {pc}]

\* CancelledError leaves execute_benchmark: it is no Exception
Cancelled(e, r, s) == Out([e EXCEPT !.pc = "cancelled", !.cancelReq = FALSE], r, s)

----------------------------------------------------------------------------
(* app/services.py *)

\* execute_benchmark, the except branch
MonoFail(e, r, s, why) ==
  LET br == [e.br EXCEPT !.status = "failed", !.end_time = TRUE, !.error = why]
  IN  Out([e EXCEPT !.pc = "raised", !.br = br], Update(r, br), s)

RECURSIVE MonoLoop(_, _, _, _)
RECURSIVE MonoAfterTask(_, _, _, _)

\* execute_benchmark, "for model in models: for task in tasks:", entered at
\* (mi, ti), up to the first suspension of _execute_task or the end of the run
MonoLoop(x, e, r, s) ==
  IF e.mi > Len(e.models) THEN
    LET br == [e.br EXCEPT !.status = "completed", !.end_time = TRUE]
    IN  {Out([e EXCEPT !.pc = "done", !.br = br], Update(r, br), s)}
  ELSE IF e.ti > Len(e.tasks) THEN
    MonoLoop(x, [e EXCEPT !.br.aggregate_scores = Put(@, e.models[e.mi], e.cats),
                          !.mi = @ + 1, !.ti = 1, !.cats = {}], r, s)
  ELSE
    \* template_repo.get_by_id returns None: raised outside the try
    {MonoFail(e, r, s, "template not found")}
    \cup UNION {
      LET res == NewResult(e.models[e.mi], e.tasks[e.ti], missing) IN
        \* ModelAdapterFactory.create_adapter raises ModelAdapterError
        MonoAfterTask(x, [e EXCEPT !.cur = [res EXCEPT !.error = TRUE]], r, s)
        \* await adapter.initialize()
        \cup {Out(Suspend([e EXCEPT !.cur = res], "initialize"), r, s)}
      : missing \in BOOLEAN}

\* execute_benchmark, after _execute_task returned e.cur
MonoAfterTask(x, e, r, s) ==
  LET id  == ResultId(x, e)
      cat == TaskCategory(e.cur.task)
      e2  == [e EXCEPT !.n = @ + 1, !.failed = @ \/ e.cur.error,
                       !.rets = @ \cup {e.cur},
                       !.br.task_results = Append(@, id),
                       !.cats = IF cat # NoCategory /\ e.cur.score \in {"zero", "pos"}
                                THEN @ \cup {cat} ELSE @,
                       !.ti = @ + 1, !.pend = "none"]
  IN  MonoLoop(x, e2, r, s \cup {id})

\* execute_benchmark up to the loop
MonoStart(x, e, r, s) ==
  IF e.cancelReq THEN {Cancelled(e, r, s)}
  ELSE IF r.exists # "yes" THEN {Out([e EXCEPT !.pc = "raised"], r, s)}
  ELSE
    LET br == [r EXCEPT !.status = "running", !.start_time = TRUE]
        e1 == [e EXCEPT !.br = br]
    IN  IF \E i \in DOMAIN br.model_ids : br.model_ids[i] \notin models
          THEN {MonoFail(e1, br, s, "model not found")}
        ELSE IF br.task_ids = <<>> /\ (br.category_ids = <<>> \/ ~category.exists)
          THEN {MonoFail(e1, br, s, "category not found")}
        ELSE
          MonoLoop(x, [e1 EXCEPT !.models = br.model_ids,
                                 !.tasks = IF br.task_ids # <<>> THEN br.task_ids
                                           ELSE category.task_ids,
                                 !.br.task_results = <<>>,
                                 !.br.aggregate_scores = EmptyScores,
                                 !.mi = 1, !.ti = 1], br, s)

\* _execute_task resumed from await adapter.generate(prompt)
MonoGenerate(x, e, r, s) ==
  LET t == [e EXCEPT !.cur.timed = TRUE, !.cancelReq = FALSE] IN
  IF e.cancelReq THEN {Out(Suspend([t EXCEPT !.pend = "cancel"], "cleanup"), r, s)}
  ELSE {Out(Suspend([t EXCEPT !.pend = "error"], "cleanup"), r, s),
        Out(Suspend(e, "token"), r, s)}

\* _execute_task resumed from await adapter.get_token_count(...)
MonoToken(x, e, r, s) ==
  LET t == [e EXCEPT !.cur.timed = TRUE, !.cancelReq = FALSE] IN
  IF e.cancelReq THEN {Out(Suspend([t EXCEPT !.pend = "cancel"], "cleanup"), r, s)}
  ELSE {Out(Suspend([t EXCEPT !.pend = "error"], "cleanup"), r, s),
        Out(Suspend([t EXCEPT !.pend = "none"], "cleanup"), r, s)}

\* _execute_task resumed from await adapter.cleanup() in the finally block
MonoCleanup(x, e, r, s) ==
  IF e.cancelReq THEN {Cancelled(e, r, s)}
  ELSE
    \* cleanup raises ModelAdapterError: it replaces the exception in flight,
    \* a CancelledError included, and is caught by "except Exception"
    MonoAfterTask(x, [e EXCEPT !.cur.error = TRUE], r, s)
    \cup (CASE e.pend = "cancel" -> {Cancelled(e, r, s)}
            [] e.pend = "error"  -> MonoAfterTask(x, [e EXCEPT !.cur.error = TRUE], r, s)
            \* _evaluate_task_result: every component and weight is positive
            [] OTHER -> MonoAfterTask(x, [e EXCEPT !.cur.score = "pos"], r, s))

----------------------------------------------------------------------------
(* app/services/benchmark_service/service.py *)

\* tasks_to_run, resolved again for every model; a missing category is skipped
PkgTasks(br) ==
  IF br.task_ids # <<>> THEN br.task_ids
  ELSE IF br.category_ids # <<>> /\ category.exists THEN category.task_ids
  ELSE <<>>

\* execute_benchmark, the except branch: the run is returned
PkgFail(e, r, s, why) ==
  LET br == [e.br EXCEPT !.status = "failed", !.end_time = TRUE, !.error = why]
  IN  Out([e EXCEPT !.pc = "done", !.br = br], Update(r, br), s)

RECURSIVE PkgLoop(_, _, _, _)
RECURSIVE PkgAfterTask(_, _, _, _)

\* execute_benchmark, "for model in models: ... for task in tasks_to_run:"
PkgLoop(x, e, r, s) ==
  IF e.mi > Len(e.models) THEN
    LET br == [e.br EXCEPT !.status = "completed", !.end_time = TRUE]
    IN  {Out([e EXCEPT !.pc = "done", !.br = br], Update(r, br), s)}
  ELSE IF e.ti > Len(e.tasks) THEN
    PkgLoop(x, [e EXCEPT !.br.aggregate_scores =
                             IF e.scored THEN Put(@, e.models[e.mi], {"overall"}) ELSE @,
                         !.mi = @ + 1, !.ti = 1, !.scored = FALSE,
                         !.tasks = PkgTasks(e.br)], r, s)
  ELSE
    UNION {
      LET res == NewResult(e.models[e.mi], e.tasks[e.ti], missing) IN
        \* ModelAdapterFactory.create_adapter raises ModelAdapterError
        PkgAfterTask(x, [e EXCEPT !.cur = [res EXCEPT !.error = TRUE]], r, s)
        \* await adapter.initialize()
        \cup {Out(Suspend([e EXCEPT !.cur = res], "initialize"), r, s)}
      : missing \in BOOLEAN}

\* execute_benchmark, after _execute_task returned e.cur: the result is not
\* written to the task-result store
PkgAfterTask(x, e, r, s) ==
  LET id == ResultId(x, e)
      e2 == [e EXCEPT !.n = @ + 1, !.failed = @ \/ e.cur.error,
                      !.rets = @ \cup {e.cur},
                      !.br.task_results = Append(@, id),
                      !.scored = @ \/ (e.cur.score = "pos"),
                      !.ti = @ + 1, !.pend = "none"]
  IN  PkgLoop(x, e2, r, s)

\* execute_benchmark up to the loop
PkgStart(x, e, r, s) ==
  IF e.cancelReq THEN {Cancelled(e, r, s)}
  ELSE IF r.exists # "yes" THEN {Out([e EXCEPT !.pc = "raised"], r, s)}
  ELSE IF \E i \in DOMAIN r.model_ids : r.model_ids[i] \notin models
    THEN {PkgFail([e EXCEPT !.br = r], r, s, "model not found")}
  ELSE
    LET br == [r EXCEPT !.status = "running", !.start_time = TRUE] IN
      PkgLoop(x, [e EXCEPT !.br = br, !.models = br.model_ids, !.tasks = PkgTasks(br),
                           !.mi = 1, !.ti = 1, !.scored = FALSE], br, s)

\* _execute_task resumed from await adapter.generate(prompt)
PkgGenerate(x, e, r, s) ==
  LET t == [e EXCEPT !.cancelReq = FALSE] IN
  IF e.cancelReq THEN {Out(Suspend([t EXCEPT !.pend = "cancel"], "cleanup"), r, s)}
  ELSE {Out(Suspend([t EXCEPT !.pend = "error"], "cleanup"), r, s),
        Out(Suspend([e EXCEPT !.cur.timed = TRUE], "token"), r, s)}

\* _execute_task resumed from await adapter.get_token_count(prompt); on
\* success _evaluate_task_result runs before the finally block
PkgToken(x, e, r, s) ==
  LET t == [e EXCEPT !.cancelReq = FALSE] IN
  IF e.cancelReq THEN {Out(Suspend([t EXCEPT !.pend = "cancel"], "cleanup"), r, s)}
  ELSE {Out(Suspend([t EXCEPT !.pend = "error"], "cleanup"), r, s),
        \* _process_output and _evaluate_task_result ran: pend = "evaluated"
        Out(Suspend([t EXCEPT !.pend = "evaluated"], "cleanup"), r, s)}

\* what _evaluate_task_result left on the result; it is local to the result
\* until _execute_task returns, so it is drawn when the result is returned:
\*   "partial"  it raised after it had set some components,
\*   "zero"     ultimate_score = 0.0 (a component, e.g. quality, is 0),
\*   "pos"      ultimate_score > 0
PkgEvaluated(e) ==
  {[e EXCEPT !.cur.score = "partial", !.cur.error = TRUE],
   [e EXCEPT !.cur.score = "zero"], [e EXCEPT !.cur.score = "pos"]}

\* _execute_task resumed from await adapter.cleanup() in the finally block
PkgCleanup(x, e, r, s) ==
  IF e.cancelReq THEN {Cancelled(e, r, s)}
  ELSE
    CASE e.pend = "cancel" ->
           {Cancelled(e, r, s)}
           \* cleanup raises ModelAdapterError: it replaces the CancelledError
           \cup PkgAfterTask(x, [e EXCEPT !.cur.error = TRUE], r, s)
      [] e.pend = "error" ->
           PkgAfterTask(x, [e EXCEPT !.cur.error = TRUE], r, s)
      [] OTHER ->
           UNION {PkgAfterTask(x, v, r, s)
                  \cup PkgAfterTask(x, [v EXCEPT !.cur.error = TRUE], r, s)
                  : v \in PkgEvaluated(e)}

----------------------------------------------------------------------------
(* both engines *)

\* _execute_task resumed from await adapter.initialize(); _prepare_prompt
\* follows without a suspension
InitializeOutcomes(x, e, r, s) ==
  IF e.cancelReq THEN {Cancelled(e, r, s)}
  ELSE
    LET failed == [e EXCEPT !.cur.error = TRUE] IN
      \* initialize raised, or _prepare_prompt raised ValidationError
      (IF impl = "mono" THEN MonoAfterTask(x, failed, r, s)
                        ELSE PkgAfterTask(x, failed, r, s))
      \cup (IF e.cur.missing THEN {} ELSE {Out(Suspend(e, "generate"), r, s)})

Commit(x, o) ==
  /\ execs' = [execs EXCEPT ![x] = o.e]
  /\ run' = o.run
  /\ store' = o.store
  /\ last' = [Resp("-", "-") EXCEPT !.results = o.rets]
  /\ UNCHANGED <<adapters, task_result, impl, models, category, active_runs>>

\* first step of the task created by start_benchmark
ExecuteBenchmark(x) ==
  /\ execs[x].pc = "pending"
  /\ \E o \in (IF impl = "mono" THEN MonoStart(x, execs[x], run, store)
                                ELSE PkgStart(x, execs[x], run, store)) : Commit(x, o)

AdapterInitialize(x) ==
  /\ execs[x].pc = "initialize"
  /\ \E o \in InitializeOutcomes(x, execs[x], run, store) : Commit(x, o)

AdapterGenerate(x) ==
  /\ execs[x].pc = "generate"
  /\ \E o \in (IF impl = "mono" THEN MonoGenerate(x, execs[x], run, store)
                                ELSE PkgGenerate(x, execs[x], run, store)) : Commit(x, o)

AdapterGetTokenCount(x) ==
  /\ execs[x].pc = "token"
  /\ \E o \in (IF impl = "mono" THEN MonoToken(x, execs[x], run, store)
                                ELSE PkgToken(x, execs[x], run, store)) : Commit(x, o)

AdapterCleanup(x) ==
  /\ execs[x].pc = "cleanup"
  /\ \E o \in (IF impl = "mono" THEN MonoCleanup(x, execs[x], run, store)
                                ELSE PkgCleanup(x, execs[x], run, store)) : Commit(x, o)

----------------------------------------------------------------------------
(* BenchmarkService: start, cancel, delete *)

\* self._active_runs of the BenchmarkService that serves a request: the
\* routes of app/routes.py build a new service (an empty table) per request,
\* the package's routes use one service for all requests.  0 is "no handle".
ServiceTable == IF impl = "mono" THEN 0 ELSE active_runs

FreeExecs == {x \in ExecIds : execs[x].pc = "none"}

\* asyncio.create_task(self.engine.execute_benchmark(benchmark_id))
CreateTask(x) == [execs EXCEPT ![x] = [NoExec EXCEPT !.pc = "pending"]]

\* app/services.py, start_benchmark
StartOutcomeMono ==
  IF run.exists # "yes" THEN "BenchmarkExecutionError"
  ELSE IF run.status = "running" THEN "ok"
  ELSE IF run.status \notin {"ready", "draft"} THEN "BenchmarkExecutionError"
  ELSE "scheduled"

StartBenchmarkMono ==
  /\ impl = "mono"
  /\ IF StartOutcomeMono = "scheduled"
       THEN \E x \in FreeExecs :
              /\ x = CHOOSE y \in FreeExecs : \A z \in FreeExecs : y <= z
              /\ execs' = CreateTask(x)
              /\ last' = Resp("start", "ok")
       ELSE /\ execs' = execs
            /\ last' = Resp("start", StartOutcomeMono)
  /\ UNCHANGED <<adapters, task_result, impl, models, category, run, store, active_runs>>

\* app/services/benchmark_service/service.py, start_benchmark
StartOutcomePkg ==
  IF run.exists # "yes" THEN "ValidationError"
  ELSE IF run.status = "running" THEN "ValidationError"
  ELSE IF run.status \notin {"ready", "draft"} THEN "ValidationError"
  ELSE "scheduled"

StartBenchmarkPkg ==
  /\ impl = "pkg"
  /\ IF StartOutcomePkg = "scheduled"
       THEN \E x \in FreeExecs :
              /\ x = CHOOSE y \in FreeExecs : \A z \in FreeExecs : y <= z
              /\ execs' = CreateTask(x)
              /\ active_runs' = x
              /\ last' = Resp("start", "ok")
       ELSE /\ UNCHANGED <<execs, active_runs>>
            /\ last' = Resp("start", StartOutcomePkg)
  /\ UNCHANGED <<adapters, task_result, impl, models, category, run, store>>

\* the record cancel_benchmark writes
CancelledRun(r) ==
  [r EXCEPT !.status = "failed", !.error = "Benchmark cancelled by user", !.end_time = TRUE]

\* task.cancel()
CancelTask(x) == [execs EXCEPT ![x].cancelReq = TRUE]

\* app/services.py, cancel_benchmark
CancelBenchmarkMono ==
  /\ impl = "mono"
  /\ LET h == ServiceTable IN
       IF h # 0
         THEN /\ execs' = IF ~Done(execs[h]) THEN CancelTask(h) ELSE execs
              /\ run' = IF run.exists = "yes" /\ run.status = "running"
                          THEN CancelledRun(run) ELSE run
              /\ last' = Resp("cancel", "true")
         ELSE /\ UNCHANGED <<execs, run>>
              /\ last' = Resp("cancel", "false")
  /\ UNCHANGED <<adapters, task_result, impl, models, category, store, active_runs>>

\* a handle is in the table, whatever the state of its task
HandlePresent(h) == h # 0

\* "if benchmark_id in self._active_runs: ... if not task.done():"
HandleActive(h) == h # 0 /\ ~Done(execs[h])

\* app/services/benchmark_service/service.py, cancel_benchmark
CancelBenchmarkPkg ==
  /\ impl = "pkg"
  /\ LET h == ServiceTable IN
       IF HandleActive(h)
         THEN /\ execs' = CancelTask(h)
              /\ run' = IF run.exists = "yes" THEN CancelledRun(run) ELSE run
              /\ last' = Resp("cancel", "true")
         ELSE /\ UNCHANGED <<execs, run>>
              /\ last' = Resp("cancel", "false")
  /\ UNCHANGED <<adapters, task_result, impl, models, category, store, active_runs>>

\* delete_benchmark
DeleteOutcome ==
  IF ServiceTable # 0 THEN "ValidationError"
  ELSE IF run.exists # "yes" THEN "ValidationError"
  ELSE "ok"

DeleteBenchmark ==
  /\ IF DeleteOutcome = "ok"
       THEN /\ store' = store \ {run.task_results[i] : i \in DOMAIN run.task_results}
            /\ run' = [NoRun EXCEPT !.exists = "deleted"]
       ELSE UNCHANGED <<store, run>>
  /\ last' = Resp("delete", DeleteOutcome)
  /\ UNCHANGED <<adapters, task_result, impl, models, category, active_runs, execs>>

----------------------------------------------------------------------------

ModelLists == {Prefix(NumModels)}
TaskLists == {<<>>, Prefix(NumTasks)}
CategoryLists == {<<>>, <<"c1">>}

Next ==
  \/ \E m \in Models : DeleteModel(m)
  \/ RemoveTaskFromCategory
  \/ DeleteCategory
  \/ \E ml \in ModelLists, cl \in CategoryLists, tl \in TaskLists : CreateBenchmarkRun(ml, cl, tl)
  \/ StartBenchmarkMono
  \/ StartBenchmarkPkg
  \/ CancelBenchmarkMono
  \/ CancelBenchmarkPkg
  \/ DeleteBenchmark
  \/ \E x \in ExecIds : ExecuteBenchmark(x)
  \/ \E x \in ExecIds : AdapterInitialize(x)
  \/ \E x \in ExecIds : AdapterGenerate(x)
  \/ \E x \in ExecIds : AdapterGetTokenCount(x)
  \/ \E x \in ExecIds : AdapterCleanup(x)

Spec == Init /\ [][Next]_vars

----------------------------------------------------------------------------
(* Properties *)

Range(f) == {f[i] : i \in DOMAIN f}

Terminal == {"completed", "failed"}

\* some task of the run has been created and has not finished
Executing == \E x \in ExecIds : execs[x].pc # "none" /\ ~Done(execs[x])

\* some task of the run has been created, and every created task finished
AllFinished ==
  /\ \E x \in ExecIds : execs[x].pc # "none"
  /\ \A x \in ExecIds : execs[x].pc = "none" \/ Done(execs[x])

StatusPath ==
  {<<"draft", "ready">>, <<"ready", "running">>,
   <<"running", "completed">>, <<"running", "failed">>}

\* C1: the persisted status of a run changes only along
\* draft -> ready -> running -> {completed, failed}: running is never
\* skipped and a completed or failed run never changes status again.
C1_StatusPath ==
  [][(run.exists = "yes" /\ run'.exists = "yes" /\ run'.status # run.status)
       => <<run.status, run'.status>> \in StatusPath]_vars

\* C2: a run that was started has the persisted status completed or failed
\* once its background execution has come to its end, on whatever path.
C2_EndsTerminal ==
  AllFinished => run.exists = "yes" /\ run.status \in Terminal

RunLevelErrors == {"model not found", "category not found"}

\* C3: a failure of one (model, task) pair never aborts the run: the engine
\* marks a run failed only for a model or category the run refers to that
\* is missing, never for what went wrong in a pair.
C3_TaskFailureIsolated ==
  \A x \in ExecIds :
    execs[x].br.status = "failed" => execs[x].br.error \in RunLevelErrors

\* C4: cancel_benchmark for a run whose background execution was started and
\* has not finished returns true and leaves the run failed, with an error
\* message and end_time.
C4_CancelActive ==
  [][(last'.op = "cancel" /\ run.exists = "yes" /\ Executing)
       => /\ last'.ret = "true"
          /\ run'.status = "failed"
          /\ run'.error # "none"
          /\ run'.end_time]_vars

C6_StartRejected ==
  [][(last'.op = "start" /\ run.exists = "yes" /\ run.status \notin {"ready", "draft"})
       => /\ last'.ret \in {"ValidationError", "BenchmarkExecutionError"}
          /\ UNCHANGED <<run, active_runs, execs>>]_vars

\* C7: delete_benchmark fails with ValidationError and removes nothing while
\* a background execution of the run is unfinished, and succeeds otherwise,
\* also after the execution has completed, failed or been cancelled.
C7_DeleteGuard ==
  [][(last'.op = "delete" /\ run.exists = "yes")
       => IF Executing
            THEN last'.ret = "ValidationError" /\ UNCHANGED <<run, store>>
            ELSE last'.ret = "ok" /\ run'.exists = "deleted"]_vars

\* C8: after a successful delete_benchmark the task-result store holds no
\* TaskResult of the deleted run.
C8_DeleteRemovesResults ==
  run.exists = "deleted" => store = {}

C10_ValidationFirst ==
  \A x \in ExecIds : execs[x].cur.missing => execs[x].cur.calls = {}

\* C11: every TaskResult returned with its error set carries no score
\* component and no ultimate_score, whichever step of the execution failed.
C11_ErrorHasNoScores ==
  \A res \in last.results : res.error => res.score = "none"

\* a model or a category the run refers to does not exist
MissingReference(r) ==
  \/ \E i \in DOMAIN r.model_ids : r.model_ids[i] \notin models
  \/ r.category_ids # <<>> /\ ~category.exists

\* C12: when a model or category of the run is missing as the run is executed,
\* the run ends failed with end_time and the error message persisted, and
\* execute_benchmark returns the run instead of raising.
C12_MissingReferenceFails ==
  [][\A x \in ExecIds :
       ( /\ execs[x].pc = "pending" /\ ~execs[x].cancelReq
         /\ execs'[x].pc # "pending"
         /\ run.exists = "yes" /\ MissingReference(run) )
       => /\ execs'[x].pc = "done"
          /\ run'.status = "failed"
          /\ run'.end_time
          /\ run'.error # "none"]_vars

\* the inputs create_benchmark_run is specified to reject
CreateInvalid(model_ids, category_ids, task_ids) ==
  \/ category_ids = <<>> /\ task_ids = <<>>
  \/ \E i \in DOMAIN model_ids : model_ids[i] \notin models
  \/ category_ids # <<>> /\ ~category.exists

\* C13: create_benchmark_run fails with ValidationError and persists no run
\* when neither list is given or a model or category does not exist;
\* otherwise it persists exactly one new run: ready, without task results,
\* aggregate scores or timestamps.
C13_CreateValidates ==
  [][\A model_ids \in ModelLists, category_ids \in CategoryLists, task_ids \in TaskLists :
       CreateBenchmarkRun(model_ids, category_ids, task_ids) =>
         IF CreateInvalid(model_ids, category_ids, task_ids)
         THEN /\ last'.ret = "ValidationError"
              /\ run' = run
              /\ store' = store
         ELSE /\ last'.ret = "ok"
              /\ run.exists = "none" /\ run'.exists = "yes"
              /\ run'.status = "ready"
              /\ run'.task_results = <<>>
              /\ DOMAIN run'.aggregate_scores = {}
              /\ ~run'.start_time /\ ~run'.end_time
              /\ run'.model_ids = model_ids
              /\ run'.category_ids = category_ids
              /\ run'.task_ids = task_ids]_vars

C13_Witness ==
  /\ last = Resp("create", "ok")
  /\ run.exists = "yes"
  /\ run.status = "ready"
  /\ run.category_ids # <<>>

\* C14: every persisted run has exactly one of category_ids and task_ids:
\* creation rejects a request with both lists as it rejects one with neither.
C14_ExactlyOneList ==
  run.exists = "yes" => (run.category_ids = <<>>) # (run.task_ids = <<>>)

----------------------------------------------------------------------------
(* get_benchmark_status: a function of the persisted state                  *)

\* "percentage": completed_tasks / total_tasks * 100, 0 without tasks; the
\* float quotient is kept as its integer part
Percentage(completed_tasks, total_tasks) ==
  IF total_tasks > 0 THEN (completed_tasks * 100) \div total_tasks ELSE 0

\* len(task_results): the ids of the run that the task-result store resolves
CompletedTasks ==
  Cardinality({i \in DOMAIN run.task_results : run.task_results[i] \in store})

GetBenchmarkStatusMono ==
  LET total_tasks ==
        IF run.task_ids # <<>> THEN Len(run.task_ids) * Len(run.model_ids)
        ELSE IF run.category_ids # <<>> /\ category.exists
          THEN Len(category.task_ids) * Len(run.model_ids)
        ELSE 0
  IN  [total_tasks |-> total_tasks, completed_tasks |-> CompletedTasks,
       percentage |-> Percentage(CompletedTasks, total_tasks),
       is_active |-> HandleActive(ServiceTable)]

GetBenchmarkStatusPkg ==
  LET total_tasks ==
        IF run.task_ids # <<>> THEN Len(run.task_ids)
        ELSE IF run.category_ids # <<>> /\ category.exists THEN Len(category.task_ids)
        ELSE 0
  IN  [total_tasks |-> total_tasks, completed_tasks |-> CompletedTasks,
       percentage |-> Percentage(CompletedTasks, total_tasks),
       is_active |-> HandleActive(ServiceTable)]

GetBenchmarkStatus ==
  IF impl = "mono" THEN GetBenchmarkStatusMono ELSE GetBenchmarkStatusPkg

\* the tasks the run stands for: its task_ids, else those of its category
ResolvedTasks ==
  IF run.task_ids # <<>> THEN run.task_ids
  ELSE IF run.category_ids # <<>> /\ category.exists THEN category.task_ids
  ELSE <<>>

\* C15: get_benchmark_status reports total_tasks = resolved tasks x models
\* and completed_tasks = the task executions the run has finished (counted
\* where the run has had a single background execution), with
\* completed_tasks <= total_tasks and percentage <= 100.
C15_StatusProgress ==
  run.exists = "yes" =>
    LET st == GetBenchmarkStatus IN
      /\ st.total_tasks = Len(ResolvedTasks) * Len(run.model_ids)
      /\ \A x \in ExecIds :
           (execs[x].pc # "none" /\ \A y \in ExecIds \ {x} : execs[y].pc = "none")
           => st.completed_tasks = execs[x].n
      /\ st.percentage = Percentage(st.completed_tasks, st.total_tasks)
      /\ st.completed_tasks <= st.total_tasks
      /\ st.percentage <= 100

----------------------------------------------------------------------------
(* _evaluate_task_result *)

MaxTicks == 4

\* time.time() - start_time, in seconds
TimeOf(ticks) == Rat(ticks * ticks, 4)

\* what adapter.get_token_count returned
TokensOf(ticks) == 500 * ticks * ticks

NoClamp(lo, hi, v) == v

\* max(lo, min(hi, v))
Clamp(lo, hi, v) == RatMax(lo, RatMin(hi, v))

\* score_components: one normalized_score * weight for each score the
\* result carries, in the order time, quality, complexity, cost, memory
RECURSIVE ScoreComponents(_, _)
ScoreComponents(score, i) ==
  IF i > Len(Components) THEN <<>>
  ELSE LET c == score[Components[i]] IN
         (IF c.present THEN <<RatMul(c.normalized_score, c.weight)>> ELSE <<>>)
         \o ScoreComponents(score, i + 1)

RECURSIVE Sum(_)
Sum(components) ==
  IF components = <<>> THEN Zero ELSE RatAdd(Head(components), Sum(Tail(components)))

RECURSIVE Product(_)
Product(components) ==
  IF components = <<>> THEN One ELSE RatMul(Head(components), Product(Tail(components)))

WeightedSum(components) == RatMul(Sum(components), Rat(100, 1))

\* ultimate_score = 1.0; for component in score_components: ultimate_score *=
\* component; task_result.ultimate_score = ultimate_score * 100
UltimateScore(components) == RatMul(Product(components), Rat(100, 1))

Scored(tr, score) ==
  [tr EXCEPT !.evaluated = TRUE, !.score = score,
             !.ultimate_score = [present |-> TRUE,
                                 value |-> UltimateScore(ScoreComponents(score, 1))]]

\* an exception left _evaluate_task_result: _execute_task sets the error on
\* the result, which keeps the scores assigned so far
Raised(tr, score) ==
  [tr EXCEPT !.evaluated = TRUE, !.score = score, !.error = TRUE]

\* app/services.py: placeholders for quality, complexity and memory; no cost
\* score for a token count of 0
EvaluateTaskResultMono(tr) ==
  LET w      == tr.weights
      tokens == TokensOf(tr.token_ticks)
      time   == Clamp(Rat(4, 5), Rat(6, 5),
                      RatDiv(One, RatAdd(RatDiv(TimeOf(tr.time_ticks), Rat(10, 1)), Half)))
      cost   == Clamp(Half, One, Rat(10000, tokens + 1000))
      memory == Clamp(Half, One, Rat(2048, 1024 + 100))
  IN  Scored(tr, [tr.score EXCEPT
        !["time"]       = ScoreComponent(time, w["time"]),
        !["quality"]    = ScoreComponent(Rat(7, 10), w["quality"]),
        !["complexity"] = ScoreComponent(RatDiv(Rat(3, 1), Rat(5, 1)), w["complexity"]),
        !["cost"]       = IF tokens # 0 THEN ScoreComponent(cost, w["cost"]) ELSE Absent,
        !["memory"]     = ScoreComponent(memory, w["memory"])])

\* _calculate_quality_score over output_data = {"raw_response": ...}: every
\* criterion scores 0.0, or is skipped for its unknown type
CalculateQualityScore == Zero

\* _calculate_complexity_score for a template without evaluation criteria
\* and a task without input data
CalculateComplexityScore(tr) ==
  LET n        == Rat(tr.fields, 1)
      input    == RatMin(Rat(1, 5), RatMul(n, IF tr.kind = "json_object"
                                                THEN Rat(7, 100) ELSE Rat(2, 100)))
      output   == RatMin(Rat(1, 5), RatMul(n, IF tr.kind = "json_object"
                                                THEN Rat(8, 100) ELSE Rat(2, 100)))
      named    == IF tr.coding THEN Rat(8, 100) ELSE Zero
      total    == RatAdd(RatAdd(RatAdd(Rat(3, 10), input), output),
                         RatMin(Rat(1, 10), named))
  IN  RatMin(One, RatMax(Zero, total))

\* app/services/benchmark_service/service.py: memory_usage_mb is None
EvaluateTaskResultPkg(tr) ==
  LET w      == tr.weights
      t      == TimeOf(tr.time_ticks)
      tokens == TokensOf(tr.token_ticks)
      s0     == tr.score
  IN
  \* 1.0 / execution_time_seconds: ZeroDivisionError
  IF t = Zero THEN Raised(tr, s0)
  ELSE
    LET s1 == [s0 EXCEPT !["time"] =
                 ScoreComponent(Clamp(Half, Rat(3, 2), RatDiv(One, t)), w["time"])]
    IN
    \* 1000.0 / token_count: ZeroDivisionError
    IF tokens = 0 THEN Raised(tr, s1)
    ELSE
      LET s2 == [s1 EXCEPT !["cost"] =
                   ScoreComponent(Clamp(Half, Rat(3, 2), Rat(1000, tokens)), w["cost"])]
      IN
      \* criterion_info.get: AttributeError on a criteria object
      IF tr.criteria = "objects" THEN Raised(tr, s2)
      \* criterion.type: AttributeError on a dict, in _calculate_complexity_score
      ELSE IF tr.criteria = "dicts"
        THEN Raised(tr, [s2 EXCEPT !["quality"] =
                           ScoreComponent(CalculateQualityScore, w["quality"])])
      ELSE
        Scored(tr, [s2 EXCEPT !["complexity"] =
                      ScoreComponent(CalculateComplexityScore(tr), w["complexity"])])

\* the five weights of a category: CategoryCreateRequest admits (0, 5]
CategoryWeights ==
  [{Components[i] : i \in DOMAIN Components} -> {Half, One}]
  \cup {[c \in {Components[i] : i \in DOMAIN Components} |-> Rat(5, 1)]}

\* the weights a task carries itself: none, or 2.0 for every component
TaskWeights ==
  {NoWeights, [c \in {Components[i] : i \in DOMAIN Components} |-> Rat(2, 1)]}

\* the TaskResults that reach _evaluate_task_result
TaskResultInputs ==
  { [NoTaskResult EXCEPT !.time_ticks = a, !.token_ticks = b, !.weights = w,
                         !.evaluation_weights = v,
                         !.criteria = c, !.fields = f, !.kind = k, !.coding = g]
    : a \in 0..MaxTicks, b \in 0..MaxTicks,
      w \in CategoryWeights, v \in TaskWeights,
      c \in {"none", "dicts", "objects"}, f \in {0, MaxTicks},
      k \in {"text", "json_object"}, g \in BOOLEAN }

ScoreInit ==
  /\ impl \in {"mono", "pkg"}
  /\ models = Models
  /\ category = NewCategory
  /\ run = NoRun
  /\ store = {}
  /\ active_runs = 0
  /\ execs = [x \in ExecIds |-> NoExec]
  /\ last = Resp("-", "-")
  /\ task_result \in TaskResultInputs
  /\ adapters = NewAdapters("cpu")

EvaluateMono ==
  /\ impl = "mono"
  /\ ~task_result.evaluated
  /\ task_result' = EvaluateTaskResultMono(task_result)
  /\ UNCHANGED <<adapters, impl, models, category, run, store, active_runs, execs, last>>

EvaluatePkg ==
  /\ impl = "pkg"
  /\ ~task_result.evaluated
  /\ task_result' = EvaluateTaskResultPkg(task_result)
  /\ UNCHANGED <<adapters, impl, models, category, run, store, active_runs, execs, last>>

ScoreNext == EvaluateMono \/ EvaluatePkg

ScoreSpec == ScoreInit /\ [][ScoreNext]_vars

\* 100 x the product of normalized_score x weight over the components i..5
\* that are present
RECURSIVE PresentProduct(_, _)
PresentProduct(score, i) ==
  IF i > Len(Components) THEN Rat(100, 1)
  ELSE LET c == score[Components[i]] IN
         RatMul(IF c.present THEN RatMul(c.normalized_score, c.weight) ELSE One,
                PresentProduct(score, i + 1))

\* C16: the ultimate_score of a scored TaskResult is 100 x the product of
\* normalized_score x weight over exactly the components present on it; an
\* absent component contributes no factor and no sum is taken.
C16_UltimateIsProduct ==
  (task_result.evaluated /\ task_result.ultimate_score.present)
  => task_result.ultimate_score.value = PresentProduct(task_result.score, 1)

C16_Witness ==
  /\ task_result.evaluated
  /\ task_result.ultimate_score.present
  /\ ~task_result.score["cost"].present
  /\ task_result.score["time"].present
  /\ task_result.weights["time"] = Half
  /\ task_result.weights["quality"] = One

\* C17: on every TaskResult the normalized scores of time, memory and cost
\* lie in [0.5, 1.5] and those of complexity and quality in [0, 1].
C17_NormalizedRanges ==
  task_result.evaluated =>
    /\ \A c \in {"time", "memory", "cost"} :
         task_result.score[c].present
         => /\ RatLeq(Half, task_result.score[c].normalized_score)
            /\ RatLeq(task_result.score[c].normalized_score, Rat(3, 2))
    /\ \A c \in {"complexity", "quality"} :
         task_result.score[c].present
         => /\ RatLeq(Zero, task_result.score[c].normalized_score)
            /\ RatLeq(task_result.score[c].normalized_score, One)

C17_Witness ==
  /\ task_result.evaluated
  /\ task_result.score["time"].present
  /\ task_result.score["time"].normalized_score = Rat(3, 2)
  /\ task_result.score["cost"].present
  /\ task_result.score["cost"].normalized_score = Half

----------------------------------------------------------------------------
(* Cancellation *)

\* cancel_benchmark returned true for the execution x in the table: x had set
\* the run to running, and the record is the one cancel_benchmark wrote
CancelledByUser(x) ==
  /\ x = active_runs
  /\ execs[x].pc \notin {"none", "pending"}
  /\ run.exists = "yes"
  /\ run = CancelledRun(run)

\* C18: once cancel_benchmark has returned true, no later step of the run's
\* background execution changes the persisted run: it stays failed with the
\* cancellation error.
C18_CancelIsFinal ==
  [][\A x \in ExecIds :
       (CancelledByUser(x) /\ execs'[x] # execs[x] /\ last'.op = "-")
       => run' = run]_vars

\* the background executions of the run that have not finished
Unfinished == {x \in ExecIds : execs[x].pc # "none" /\ ~Done(execs[x])}

\* C19: at most one background execution of the run is unfinished at any
\* time, and the table holds no handle other than that execution's.
C19_SingleExecution ==
  /\ Cardinality(Unfinished) <= 1
  /\ \A x \in Unfinished : ServiceTable \in {0, x}

\* C20: after the run is cancelled its background execution starts no
\* further (model, task) execution: the adapter whose call was in flight
\* receives cleanup(), and the execution ends there.
C20_CancelStopsAndCleansUp ==
  [][\A x \in ExecIds :
       (execs'[x] # execs[x] /\ last'.op = "-")
       => /\ (execs[x].cancelReq /\ execs[x].pc \in {"initialize", "generate", "token"})
             => execs'[x].pc = "cleanup"
          /\ (execs[x].cancelReq /\ execs[x].pc \in {"pending", "cleanup"})
             => execs'[x].pc = "cancelled"
          /\ execs[x].pend = "cancel" => execs'[x].pc = "cancelled"]_vars

----------------------------------------------------------------------------
(* _execute_task: what a returned TaskResult went through *)

\* C21: every execution that created an adapter (it reached initialize())
\* has called cleanup() on it before its TaskResult is returned.
C21_CleanupAlways ==
  \A res \in last.results : "initialize" \in res.calls => "cleanup" \in res.calls

\* C22: while the run is running, get_benchmark_status reports as
\* completed_tasks the number k of task executions the run's (single)
\* background execution has finished so far.
C22_LiveProgress ==
  \A x \in ExecIds :
    ( /\ run.exists = "yes" /\ run.status = "running"
      /\ execs[x].pc \in {"initialize", "generate", "token", "cleanup"}
      /\ \A y \in ExecIds \ {x} : execs[y].pc = "none" )
    => GetBenchmarkStatus.completed_tasks = execs[x].n

\* the category ids of the tasks
CategoryIds == {TaskCategory(t) : t \in Tasks} \ {NoCategory}

\* C23: on a completed run the keys under a model in aggregate_scores are
\* category ids, and the category of every scored TaskResult of that model
\* is among them (the value under the key being the mean of those results).
C23_AggregatePerCategory ==
  [][\A x \in ExecIds :
       ( /\ execs[x].pc # "done" /\ execs'[x].pc = "done"
         /\ run'.exists = "yes" /\ run'.status = "completed" )
       => /\ \A m \in DOMAIN run'.aggregate_scores :
               run'.aggregate_scores[m] \subseteq CategoryIds
          /\ \A res \in last'.results :
               (res.score \in {"zero", "pos"} /\ TaskCategory(res.task) # NoCategory)
               => /\ res.model \in DOMAIN run'.aggregate_scores
                  /\ TaskCategory(res.task) \in run'.aggregate_scores[res.model]]_vars

\* the weight the scoring of component c is specified to use
SpecifiedWeight(tr, c) ==
  IF DOMAIN tr.evaluation_weights # {} THEN tr.evaluation_weights[c] ELSE tr.weights[c]

\* C24: the weights used to score a task execution are the task's own
\* evaluation weights when it has them, otherwise those of its category
\* (1.0 each without a category).
C24_WeightPrecedence ==
  task_result.evaluated =>
    \A i \in DOMAIN Components :
      task_result.score[Components[i]].present
      => task_result.score[Components[i]].weight
           = SpecifiedWeight(task_result, Components[i])

\* C25: the ultimate_score of every scored TaskResult lies in [0, 100].
C25_UltimateInRange ==
  (task_result.evaluated /\ task_result.ultimate_score.present)
  => /\ RatLeq(Zero, task_result.ultimate_score.value)
     /\ RatLeq(task_result.ultimate_score.value, Rat(100, 1))

\* C26: a TaskResult returned with an error has execution_time_seconds set
\* exactly when the failure came after timing had started, that is after
\* adapter.generate() was called.
C26_TimeOnFailure ==
  \A res \in last.results :
    res.error => (res.timed <=> "generate" \in res.calls)

----------------------------------------------------------------------------
(* Adapters *)

Called(a, adapter, op, outcome) ==
  [a EXCEPT !.last = [adapter |-> adapter, op |-> op, outcome |-> outcome]]

\* HuggingFaceAdapter.initialize: the tokenizer is loaded, then the model
HfInitialize ==
  /\ adapters' \in
       { Called([adapters EXCEPT !.hf.tokenizer = "loaded", !.hf.model = "loaded"],
                "hf", "initialize", "ok"),
         \* AutoModelForCausalLM.from_pretrained raises
         Called([adapters EXCEPT !.hf.tokenizer = "loaded"],
                "hf", "initialize", "ModelAdapterError"),
         \* AutoTokenizer.from_pretrained raises
         Called(adapters, "hf", "initialize", "ModelAdapterError") }
  /\ UNCHANGED <<task_result, impl, models, category, run, store, active_runs, execs, last>>

\* HuggingFaceAdapter.generate: the test of self.model is outside the try; a
\* CUDA error raised by model.generate stays with the device
HfGenerate ==
  /\ adapters' \in
       IF "deleted" \in {adapters.hf.model, adapters.hf.tokenizer}
         THEN {Called(adapters, "hf", "generate", "AttributeError")}
       ELSE IF "None" \in {adapters.hf.model, adapters.hf.tokenizer}
         THEN {Called(adapters, "hf", "generate", "ModelAdapterError")}
       ELSE {Called(adapters, "hf", "generate", "ok"),
             Called(adapters, "hf", "generate", "ModelAdapterError")}
            \cup (IF adapters.hf.device # "cpu"
                    THEN {Called([adapters EXCEPT !.hf.cuda_error = TRUE],
                                 "hf", "generate", "ModelAdapterError")}
                    ELSE {})
  /\ UNCHANGED <<task_result, impl, models, category, run, store, active_runs, execs, last>>

\* reading a deleted attribute raises AttributeError inside the try of
\* cleanup, as does torch.cuda.empty_cache() after a CUDA error; the
\* attributes are assigned None only after both
HfCleanupOutcome(a) ==
  IF a.hf.model = "deleted" THEN Called(a, "hf", "cleanup", "ModelAdapterError")
  ELSE
    LET a1 == [a EXCEPT !.hf.model = IF @ = "loaded" THEN "deleted" ELSE @] IN
    IF a1.hf.tokenizer = "deleted" THEN Called(a1, "hf", "cleanup", "ModelAdapterError")
    ELSE
      LET a2 == [a1 EXCEPT !.hf.tokenizer = IF @ = "loaded" THEN "deleted" ELSE @] IN
      IF a2.hf.device # "cpu" /\ a2.hf.cuda_error
        THEN Called(a2, "hf", "cleanup", "ModelAdapterError")
      ELSE Called([a2 EXCEPT !.hf.model = "None", !.hf.tokenizer = "None"],
                  "hf", "cleanup", "ok")

HfCleanup ==
  /\ adapters' = HfCleanupOutcome(adapters)
  /\ UNCHANGED <<task_result, impl, models, category, run, store, active_runs, execs, last>>

\* OllamaAdapter.initialize: the client is created, then client.show is awaited
OllamaInitialize ==
  /\ adapters' \in
       { Called([adapters EXCEPT !.ollama.client = "client", !.ollama.is_initialized = TRUE],
                "ollama", "initialize", "ok"),
         Called([adapters EXCEPT !.ollama.client = "client"],
                "ollama", "initialize", "ModelAdapterError") }
  /\ UNCHANGED <<task_result, impl, models, category, run, store, active_runs, execs, last>>

OllamaGenerate ==
  /\ adapters' \in
       IF ~adapters.ollama.is_initialized \/ adapters.ollama.client = "None"
         THEN {Called(adapters, "ollama", "generate", "ModelAdapterError")}
       ELSE {Called(adapters, "ollama", "generate", "ok"),
             Called(adapters, "ollama", "generate", "ModelAdapterError")}
  /\ UNCHANGED <<task_result, impl, models, category, run, store, active_runs, execs, last>>

OllamaCleanup ==
  /\ adapters' = Called([adapters EXCEPT !.ollama.client = "None",
                                         !.ollama.is_initialized = FALSE],
                        "ollama", "cleanup", "ok")
  /\ UNCHANGED <<task_result, impl, models, category, run, store, active_runs, execs, last>>

AdapterInit ==
  /\ impl \in {"mono", "pkg"}
  /\ models = Models
  /\ category = NewCategory
  /\ run = NoRun
  /\ store = {}
  /\ active_runs = 0
  /\ execs = [x \in ExecIds |-> NoExec]
  /\ last = Resp("-", "-")
  /\ task_result = NoTaskResult
  /\ adapters \in {NewAdapters("cpu"), NewAdapters("cuda")}

AdapterNext ==
  \/ HfInitialize
  \/ HfGenerate
  \/ HfCleanup
  \/ OllamaInitialize
  \/ OllamaGenerate
  \/ OllamaCleanup

AdapterSpec == AdapterInit /\ [][AdapterNext]_vars

\* C27: cleanup() raises no error on a never-initialized, an initialized or
\* an already cleaned-up adapter and leaves it as it was after construction,
\* so that a second cleanup() changes nothing.
C27_CleanupIdempotent ==
  [][adapters'.last.op = "cleanup" /\ adapters' # adapters
     => /\ adapters'.last.outcome = "ok"
        /\ adapters'.last.adapter = "hf"
           => /\ adapters'.hf.model = "None"
              /\ adapters'.hf.tokenizer = "None"
        /\ adapters'.last.adapter = "ollama"
           => /\ adapters'.ollama.client = "None"
              /\ ~adapters'.ollama.is_initialized]_vars

----------------------------------------------------------------------------
(* Run record *)

\* the execution whose handle start_benchmark stored last under the run id
Registered(x) ==
  /\ execs[x].pc # "none"
  /\ \A y \in ExecIds : execs[y].pc # "none" => y <= x

\* C28: when the background execution registered for the run has finished
\* (returned, raised or cancelled), the persisted status of the run is
\* completed or failed.
C28_FinishedIsTerminal ==
  \A x \in ExecIds :
    (Registered(x) /\ Done(execs[x]) /\ run.exists = "yes")
    => run.status \in Terminal

\* C29: a draft or ready run has neither start_time nor end_time, a running
\* run has start_time and no end_time, a completed or failed run has both.
C29_Timestamps ==
  run.exists = "yes" =>
    /\ run.status \in {"draft", "ready"} => ~run.start_time /\ ~run.end_time
    /\ run.status = "running" => run.start_time /\ ~run.end_time
    /\ run.status \in Terminal => run.start_time /\ run.end_time

\* C30: every id in the persisted run's task_results names a TaskResult in
\* the task-result store, and no id appears twice in the list.
C30_ResultIdsResolve ==
  run.exists = "yes" =>
    /\ \A i \in DOMAIN run.task_results : run.task_results[i] \in store
    /\ \A i, j \in DOMAIN run.task_results :
         run.task_results[i] = run.task_results[j] => i = j

====
